---- MODULE Spec2Model ----
(***************************************************************************)
(* PhotoZipper: organise the files of a source directory into one folder   *)
(* per group (the substring of the file name matched by a pattern), then   *)
(* archive each folder.  The model follows photozipper/cli.py (main),      *)
(* pattern_matcher.py, file_organizer.py, zip_creator.py and logger.py.    *)
(*                                                                         *)
(* File names, group identifiers and patterns are sequences of tokens;     *)
(* file contents are sequences of bytes, the size of a file is the length  *)
(* of its content.                                                         *)
(***************************************************************************)
EXTENDS Integers, Sequences, FiniteSets, TLC

(***************************************************************************)
(* Bounds of the model.                                                    *)
(***************************************************************************)
MaxRuns == 2
MaxEdits == 1
MaxFaults == 1

(***************************************************************************)
(* Universes the inputs are drawn from.                                    *)
(***************************************************************************)
Names == { <<"a", "1">>, <<"a", "2">>, <<"b", "1">> }

\* what a file of the source directory is rewritten with
EditData == <<"y", "y">>

Digits == { "1", "2" }

\* `a`, `a\d`, `a*`, `.`
ValidPatterns == { <<"a">>, <<"a", "\\d">>, <<"a", "*">>, <<".">> }

\* ``, ` `, `a[`, `*a`
InvalidPatterns == { <<>>, <<" ">>, <<"a", "[">>, <<"*", "a">> }

Patterns == ValidPatterns \cup InvalidPatterns

SourceKinds == { "dir", "unreadable", "file", "missing" }

LogName == <<"photozipper.log">>
ZipSuffix == <<".zip">>
LogBytes == <<"log">>
ZipBytes == <<"zip">>
PartialBytes == <<"partial">>

EmptyMap == [n \in {} |-> <<>>]

(***************************************************************************)
(* Regular expressions (the part of Python's re the patterns above use):   *)
(* a pattern is a sequence of atoms (a literal token, `.`, `\d`), each     *)
(* optionally followed by a quantifier `*` or `?` (greedy) or `*?`, `??`   *)
(* (lazy).  `[` opens a character set that is never closed.                *)
(***************************************************************************)
IsQuant(t) == t \in { "*", "?" }

\* str.strip() leaves nothing: the pattern is empty or all blanks
IsBlank(p) == \A i \in 1..Len(p) : p[i] = " "

\* re.compile succeeds
RECURSIVE Compiles(_, _, _)
Compiles(p, i, prev) ==
  \* prev: "none" (nothing to repeat), "atom", "quant", "lazy"
  IF i > Len(p) THEN TRUE
  ELSE IF p[i] = "[" THEN FALSE
  ELSE IF IsQuant(p[i])
       THEN CASE prev = "atom" -> Compiles(p, i + 1, "quant")
              [] prev = "quant" /\ p[i] = "?" -> Compiles(p, i + 1, "lazy")
              [] OTHER -> FALSE
       ELSE Compiles(p, i + 1, "atom")

\* the compiled pattern: a sequence of [atom, q]
RECURSIVE Items(_, _)
Items(p, i) ==
  IF i > Len(p) THEN <<>>
  ELSE LET q == IF i + 1 <= Len(p) /\ IsQuant(p[i + 1])
                THEN IF i + 2 <= Len(p) /\ p[i + 2] = "?"
                     THEN <<p[i + 1], "?">>
                     ELSE <<p[i + 1]>>
                ELSE <<>>
       IN <<[atom |-> p[i], q |-> q]>> \o Items(p, i + 1 + Len(q))

AtomMatches(atom, c) ==
  CASE atom = "." -> TRUE
    [] atom = "\\d" -> c \in Digits
    [] OTHER -> c = atom

\* The backtracking matcher: the end position of the first match of
\* items[k..] starting at position i of s (positions are 1-based, the end
\* is exclusive, so it is at least 1), or NoMatch.
NoMatch == 0

RECURSIVE MatchAt(_, _, _, _)
MatchAt(items, k, s, i) ==
  IF k > Len(items) THEN i
  ELSE LET it == items[k]
           here == i <= Len(s) /\ AtomMatches(it.atom, s[i])
           skip == MatchAt(items, k + 1, s, i)
       IN CASE it.q = <<>> ->
                 IF here THEN MatchAt(items, k + 1, s, i + 1) ELSE NoMatch
            [] it.q = <<"?">> ->
                 LET take == IF here THEN MatchAt(items, k + 1, s, i + 1) ELSE NoMatch
                 IN IF take # NoMatch THEN take ELSE skip
            [] it.q = <<"*">> ->
                 LET take == IF here THEN MatchAt(items, k, s, i + 1) ELSE NoMatch
                 IN IF take # NoMatch THEN take ELSE skip
            [] it.q = <<"?", "?">> ->
                 IF skip # NoMatch THEN skip
                 ELSE IF here THEN MatchAt(items, k + 1, s, i + 1) ELSE NoMatch
            [] it.q = <<"*", "?">> ->
                 IF skip # NoMatch THEN skip
                 ELSE IF here THEN MatchAt(items, k, s, i + 1) ELSE NoMatch

\* re.search: the leftmost start position with a match, as [some, from, to]
RECURSIVE Search(_, _, _)
Search(items, s, i) ==
  IF i > Len(s) + 1 THEN [some |-> FALSE, from |-> 0, to |-> 0]
  ELSE LET e == MatchAt(items, 1, s, i)
       IN IF e # NoMatch THEN [some |-> TRUE, from |-> i, to |-> e]
          ELSE Search(items, s, i + 1)

(***************************************************************************)
(* pattern_matcher.py                                                      *)
(***************************************************************************)
None == [some |-> FALSE, val |-> <<>>]
Some(v) == [some |-> TRUE, val |-> v]

\* validate_pattern: TRUE, or FALSE for the ValueError it raises
validate_pattern(pattern) ==
  IF pattern = <<>> \/ IsBlank(pattern) THEN FALSE
  ELSE Compiles(pattern, 1, "none")

\* an extract_group that returns the pattern text for a match
extract_group_pattern(filename, pattern) ==
  LET match == Search(Items(pattern, 1), filename, 1)
  IN IF match.some THEN Some(pattern) ELSE None

extract_group(filename, pattern) ==
  LET match == Search(Items(pattern, 1), filename, 1)
  IN IF match.some THEN Some(SubSeq(filename, match.from, match.to - 1))
     ELSE None

(***************************************************************************)
(* The file system.  An entry of a directory is a regular file (with its   *)
(* content), an archive (a regular file holding named entries) or a        *)
(* sub-directory (holding named regular files).                            *)
(***************************************************************************)
FileEntry(data) == [kind |-> "file", data |-> data, files |-> EmptyMap]
ZipEntry(entries) == [kind |-> "zip", data |-> ZipBytes, files |-> entries]
DirEntry(files) == [kind |-> "dir", data |-> <<>>, files |-> files]

Put(m, k, v) == [x \in (DOMAIN m) \cup {k} |-> IF x = k THEN v ELSE m[x]]
Del(m, k) == [x \in (DOMAIN m) \ {k} |-> m[x]]

\* an is_file() that holds of sub-directories too
IsEntry(e) == TRUE

\* Path.is_file()
IsFile(e) == e.kind \in { "file", "zip" }

\* st_size
Size(data) == Len(data)

\* the orders in which iterdir() may yield the entries of a directory
Orders(S) ==
  { o \in [1..Cardinality(S) -> S] : \A i, j \in DOMAIN o : i # j => o[i] # o[j] }

VARIABLES
  src,            \* the source directory: name -> entry
  outExists,      \* the output directory exists
  dst,            \* the output directory: name -> entry
  args,           \* the parsed command line of the current run
  pc,             \* where main is
  exit,           \* main's return value (when pc = "done")
  groups,         \* scan_and_group's result
  gi, fi,         \* the group and the file main's loops are at
  files_copied, files_skipped, files_deleted,
  runs, edits, faults,
  hist,           \* the steps the current run has taken so far
  src0, outExists0, dst0,   \* the file system when the current run started
  removed,        \* the source files the current run has unlinked
  prev,           \* the previous run: its args, exit, and where it started
  userPattern     \* the pattern the user organises this directory with

vars ==
  << src, outExists, dst, args, pc, exit, groups, gi, fi,
     files_copied, files_skipped, files_deleted, runs, edits, faults,
     hist, src0, outExists0, dst0, removed, prev, userPattern >>

fsVars == << src, outExists, dst >>
runVars == << args, runs, src0, outExists0, dst0, prev, userPattern >>
countVars == << files_copied, files_skipped, files_deleted >>

(***************************************************************************)
(* models.py                                                               *)
(***************************************************************************)
\* SourceFile.from_path (the path is the source directory's entry `name`)
SourceFile(name, entry, group) ==
  [name |-> name, size |-> Size(entry.data), group |-> group]

FileGroup(name, files) == [name |-> name, files |-> files]

file_count(g) == Len(g.files)

(***************************************************************************)
(* pattern_matcher.scan_and_group: `order` is the order in which           *)
(* source_dir.iterdir() yields the entries of `dir`.                       *)
(***************************************************************************)
\* a lookup that never finds the group
GroupIndexNew(gs, name) == Len(gs) + 1

GroupIndex(gs, name) ==
  IF \E i \in DOMAIN gs : gs[i].name = name
  THEN CHOOSE i \in DOMAIN gs : gs[i].name = name
  ELSE Len(gs) + 1

RECURSIVE ScanFrom(_, _, _, _, _)
ScanFrom(dir, order, pattern, i, groups_dict) ==
  IF i > Len(order) THEN groups_dict
  ELSE LET item == order[i]
           group_name == extract_group(item, pattern)
       IN IF ~IsFile(dir[item]) \/ ~group_name.some
          THEN ScanFrom(dir, order, pattern, i + 1, groups_dict)
          ELSE LET k == GroupIndex(groups_dict, group_name.val)
                   g == IF k > Len(groups_dict)
                        THEN FileGroup(group_name.val, <<>>)
                        ELSE groups_dict[k]
                   added == FileGroup(g.name,
                              Append(g.files, SourceFile(item, dir[item], group_name.val)))
               IN ScanFrom(dir, order, pattern, i + 1,
                    IF k > Len(groups_dict) THEN Append(groups_dict, added)
                    ELSE [groups_dict EXCEPT ![k] = added])

scan_and_group(dir, order, pattern) == ScanFrom(dir, order, pattern, 1, <<>>)

(***************************************************************************)
(* Paths under the output directory.  The folder of a group is             *)
(* output_dir / group_name: pathlib joins an empty or "." component to     *)
(* output_dir itself.  A target is the pair of a group name and a base     *)
(* name; an archive is the entry group_name + ".zip" of output_dir.        *)
(***************************************************************************)
IsRoot(group_name) == group_name \in { <<>>, <<".">> }

ZipName(group_name) == group_name \o ZipSuffix

\* Path.exists() of the group folder
FolderExists(out, d, group_name) ==
  out /\ (IsRoot(group_name) \/ group_name \in DOMAIN d)

\* Path.is_dir() of the group folder
FolderIsDir(out, d, group_name) ==
  out /\ (IsRoot(group_name) \/ (group_name \in DOMAIN d /\ d[group_name].kind = "dir"))

\* the regular files directly in the group folder: name -> content
FolderFiles(out, d, group_name) ==
  IF ~FolderIsDir(out, d, group_name) THEN EmptyMap
  ELSE IF IsRoot(group_name)
       THEN [n \in { x \in DOMAIN d : IsFile(d[x]) } |-> d[n].data]
       ELSE d[group_name].files

\* what is at group_folder / name: [exists, data]
Target(out, d, group_name, name) ==
  IF ~FolderIsDir(out, d, group_name) THEN [exists |-> FALSE, data |-> <<>>]
  ELSE IF IsRoot(group_name)
       THEN IF name \in DOMAIN d THEN [exists |-> TRUE, data |-> d[name].data]
            ELSE [exists |-> FALSE, data |-> <<>>]
       ELSE IF name \in DOMAIN d[group_name].files
            THEN [exists |-> TRUE, data |-> d[group_name].files[name]]
            ELSE [exists |-> FALSE, data |-> <<>>]

\* a regular file with content `data` is written at group_folder / name
WriteTarget(d, group_name, name, data) ==
  IF IsRoot(group_name) THEN Put(d, name, FileEntry(data))
  ELSE [d EXCEPT ![group_name].files = Put(@, name, data)]

(***************************************************************************)
(* logger.setup_logging: output_dir.mkdir(parents, exist_ok) and the log   *)
(* file opened in append mode; this run's lines are one more token.        *)
(***************************************************************************)
setup_logging(out, d) ==
  [out |-> TRUE,
   dst |-> IF out /\ LogName \in DOMAIN d
           THEN [d EXCEPT ![LogName].data = Append(@, "log")]
           ELSE Put(d, LogName, FileEntry(LogBytes))]

(***************************************************************************)
(* file_organizer.py                                                       *)
(***************************************************************************)
\* create_folder: mkdir(parents=True, exist_ok=True); ok = FALSE is the
\* FileExistsError raised when the path is a regular file
create_folder(out, d, group_name) ==
  IF IsRoot(group_name) THEN [ok |-> TRUE, out |-> TRUE, dst |-> d]
  ELSE IF group_name \in DOMAIN d
       THEN [ok |-> d[group_name].kind = "dir", out |-> TRUE, dst |-> d]
       ELSE [ok |-> TRUE, out |-> TRUE, dst |-> Put(d, group_name, DirEntry(EmptyMap))]

CopyOutcomes == { "ok", "perm", "trunc", "stat" }

\* copy_file_with_metadata: shutil.copy2 succeeds ("ok"), raises before it
\* writes ("perm"), while it writes ("trunc": a partial target is left) or
\* in copystat after the content is written ("stat").  [ok, wrote, data]
copy_file_with_metadata(source, outcome) ==
  CASE outcome = "ok" -> [ok |-> TRUE, wrote |-> TRUE, data |-> source.data]
    [] outcome = "perm" -> [ok |-> FALSE, wrote |-> FALSE, data |-> <<>>]
    [] outcome = "trunc" ->
         [ok |-> FALSE, wrote |-> TRUE,
          data |-> SubSeq(source.data, 1, Len(source.data) - 1)]
    [] outcome = "stat" -> [ok |-> FALSE, wrote |-> TRUE, data |-> source.data]

\* a verify_copy that compares the contents
verify_copy_content(source, target) == target.exists /\ target.data = source.data

\* a verify_copy that only checks that the target exists
verify_copy_exists(source, target) == target.exists

verify_copy(source, target) ==
  IF ~target.exists THEN FALSE
  ELSE LET source_size == Size(source.data)
           target_size == Size(target.data)
       IN source_size = target_size

\* a handle_merge that never finds a duplicate
handle_merge_overwrite(target) == <<TRUE, "copy">>

handle_merge(target) ==
  IF target.exists THEN <<FALSE, "skip">> ELSE <<TRUE, "copy">>

DeleteOutcomes == { "ok", "perm" }

\* delete_original: unlink succeeds, or raises PermissionError ("perm")
delete_original(dir, name, outcome) ==
  IF outcome = "ok" /\ name \in DOMAIN dir
  THEN [ok |-> TRUE, dir |-> Del(dir, name)]
  ELSE [ok |-> FALSE, dir |-> dir]

(***************************************************************************)
(* zip_creator.py                                                          *)
(***************************************************************************)
ZipOutcomes == { "ok", "open", "write" }

\* add_folder_to_zip: the archive is already open (it exists, being
\* written, at zip_name), so a folder that holds it yields it too
add_folder_to_zip(out, d, group_name, zip_name) ==
  LET files == FolderFiles(out, Put(d, zip_name, ZipEntry(EmptyMap)), group_name)
  IN [n \in DOMAIN files |->
        IF IsRoot(group_name) /\ n = zip_name THEN PartialBytes ELSE files[n]]

\* a create_zip without its check that the folder exists: the archive is
\* opened, and so created or truncated, before the folder is listed
create_zip_unchecked(out, d, group_name, outcome) ==
  LET zip_name == ZipName(group_name)
  IN IF outcome = "open" THEN [ok |-> FALSE, err |-> "OSError", dst |-> d]
     ELSE IF ~FolderExists(out, d, group_name)
          THEN [ok |-> FALSE, err |-> "FileNotFoundError",
                dst |-> Put(d, zip_name, ZipEntry(EmptyMap))]
     ELSE IF outcome = "write" \/ ~FolderIsDir(out, d, group_name)
          THEN [ok |-> FALSE, err |-> "OSError",
                dst |-> Put(d, zip_name, ZipEntry(EmptyMap))]
          ELSE [ok |-> TRUE, err |-> "none",
                dst |-> Put(d, zip_name,
                          ZipEntry(add_folder_to_zip(out, d, group_name, zip_name)))]

\* create_zip: ok = FALSE is the exception it raises, err (FileNotFoundError
\* when the folder does not exist; OSError when the archive cannot be
\* opened, "open", or written, "write", or the folder cannot be listed)
create_zip(out, d, group_name, outcome) ==
  LET zip_name == ZipName(group_name)
  IN IF ~FolderExists(out, d, group_name)
     THEN [ok |-> FALSE, err |-> "FileNotFoundError", dst |-> d]
     ELSE IF outcome = "open" THEN [ok |-> FALSE, err |-> "OSError", dst |-> d]
     ELSE IF outcome = "write" \/ ~FolderIsDir(out, d, group_name)
          THEN [ok |-> FALSE, err |-> "OSError",
                dst |-> Put(d, zip_name, ZipEntry(EmptyMap))]
          ELSE [ok |-> TRUE, err |-> "none",
                dst |-> Put(d, zip_name,
                          ZipEntry(add_folder_to_zip(out, d, group_name, zip_name)))]

\* shutil.rmtree(group_folder)
rmtree(out, d, group_name) ==
  IF IsRoot(group_name) THEN [out |-> FALSE, dst |-> EmptyMap]
  ELSE [out |-> out, dst |-> Del(d, group_name)]

(***************************************************************************)
(* cli.py                                                                  *)
(***************************************************************************)
\* a validate_arguments without the check of dry-run with zip-only
validate_arguments_delete_only(a) ==
  IF a.dry_run /\ a.delete_originals THEN TRUE
  ELSE FALSE

\* validate_arguments: TRUE when it returns an error message
validate_arguments(a) ==
  IF a.dry_run /\ a.delete_originals THEN TRUE
  ELSE IF a.dry_run /\ a.zip_only THEN TRUE
  ELSE FALSE

NoArgs ==
  [source |-> "dir", pattern |-> <<>>, dry_run |-> FALSE,
   delete_originals |-> FALSE, zip_only |-> FALSE]

Args(source, pattern, dry_run, delete_originals, zip_only) ==
  [source |-> source, pattern |-> pattern, dry_run |-> dry_run,
   delete_originals |-> delete_originals, zip_only |-> zip_only]

\* the command lines of the runs of a user whose pattern is p: every flag
\* combination on a readable source directory, and the combinations of a
\* bad source or a bad pattern with good and bad flags
CommandLines(p) ==
  { Args("dir", p, d, o, z) : d \in BOOLEAN, o \in BOOLEAN, z \in BOOLEAN }
  \cup { Args(k, p, d, d, FALSE) : k \in SourceKinds \ { "dir" }, d \in BOOLEAN }
  \cup { Args("dir", q, d, FALSE, d) : q \in InvalidPatterns, d \in BOOLEAN }
  \cup { Args("missing", <<"a", "[">>, FALSE, FALSE, FALSE) }

NoPrev == [ran |-> FALSE, args |-> NoArgs, exit |-> 0, src0 |-> EmptyMap]

\* the source directories a behaviour may start from
InitData(n) == IF n = <<"a", "2">> THEN <<"x", "x">> ELSE <<"x">>

\* the source directory holds some of the files a1, a2, b1; a2 may be a
\* sub-directory instead of a file
InitSources ==
  { [n \in S |-> FileEntry(InitData(n))] :
      S \in { {}, { <<"a", "1">> }, { <<"b", "1">> }, { <<"a", "1">>, <<"a", "2">> },
              { <<"a", "1">>, <<"b", "1">> }, Names } }
  \cup { [n \in Names |-> IF n = <<"a", "2">> THEN DirEntry(EmptyMap)
                          ELSE FileEntry(InitData(n))] }

Init ==
  /\ src \in InitSources
  /\ outExists = FALSE
  /\ dst = EmptyMap
  /\ args = NoArgs
  /\ pc = "idle"
  /\ exit = 0
  /\ groups = <<>>
  /\ gi = 0
  /\ fi = 0
  /\ files_copied = 0
  /\ files_skipped = 0
  /\ files_deleted = 0
  /\ runs = 0
  /\ edits = 0
  /\ faults = 0
  /\ hist = <<>>
  /\ src0 = src
  /\ outExists0 = FALSE
  /\ dst0 = EmptyMap
  /\ removed = {}
  /\ prev = NoPrev
  /\ userPattern \in ValidPatterns

\* a step of the run: what was done, for which group and file, whether it
\* succeeded, and (for "resolve") the content found at the target path
Event(ev, g, f, ok, data) == [ev |-> ev, g |-> g, f |-> f, ok |-> ok, data |-> data]

group == groups[gi]
group_name == group.name
source_file == group.files[fi]

\* `return code`
Return(code) == pc' = "done" /\ exit' = code

\* a file loop that leaves the group after its first file
NextFileLeave == pc' = "zip" /\ fi' = fi

\* the end of the body of `for source_file in group.files`
NextFile ==
  IF fi < Len(group.files) THEN pc' = "file" /\ fi' = fi + 1
  ELSE pc' = "zip" /\ fi' = fi

\* the end of the body of `for group in groups`
NextGroup ==
  IF gi < Len(groups) THEN pc' = "group" /\ gi' = gi + 1 /\ fi' = 0
  ELSE pc' = "summary" /\ gi' = gi /\ fi' = fi

\* an injected I/O failure: none for "ok", else one more of the MaxFaults
Inject(outcome) ==
  IF outcome = "ok" THEN faults' = faults
  ELSE faults < MaxFaults /\ faults' = faults + 1

(***************************************************************************)
(* The environment: after a run, and before the next, a file of the source *)
(* directory is created or rewritten.                                      *)
(***************************************************************************)
EditSource ==
  /\ pc = "done"
  /\ runs < MaxRuns
  /\ edits < MaxEdits
  /\ \E n \in Names :
       /\ n \in DOMAIN src => src[n].kind = "file" /\ src[n].data # EditData
       /\ src' = Put(src, n, FileEntry(EditData))
  /\ edits' = edits + 1
  /\ pc' = "idle"
  /\ UNCHANGED << outExists, dst, args, exit, groups, gi, fi, countVars,
                  runs, faults, hist, src0, outExists0, dst0, removed, prev,
                  userPattern >>

(***************************************************************************)
(* main, a step at a time.                                                 *)
(***************************************************************************)
\* parser.parse_args(): a run starts
Start ==
  /\ pc \in { "idle", "done" }
  /\ runs < MaxRuns
  /\ args' \in CommandLines(userPattern)
  /\ runs' = runs + 1
  /\ prev' = IF runs = 0 THEN NoPrev
             ELSE [ran |-> TRUE, args |-> args, exit |-> exit, src0 |-> src0]
  /\ src0' = src /\ outExists0' = outExists /\ dst0' = dst
  /\ pc' = "validate_arguments"
  /\ exit' = 0
  /\ groups' = <<>> /\ gi' = 0 /\ fi' = 0
  /\ files_copied' = 0 /\ files_skipped' = 0 /\ files_deleted' = 0
  /\ hist' = <<>>
  /\ removed' = {}
  /\ UNCHANGED << fsVars, edits, faults, userPattern >>

ValidateArguments ==
  /\ pc = "validate_arguments"
  /\ IF validate_arguments(args) THEN Return(1)
     ELSE pc' = "check_source" /\ exit' = exit
  /\ UNCHANGED << fsVars, runVars, groups, gi, fi, countVars, edits, faults,
                  hist, removed >>

\* source_dir.exists(), source_dir.is_dir()
CheckSource ==
  /\ pc = "check_source"
  /\ IF args.source = "missing" THEN Return(1)
     ELSE IF args.source = "file" THEN Return(1)
     ELSE pc' = "validate_pattern" /\ exit' = exit
  /\ UNCHANGED << fsVars, runVars, groups, gi, fi, countVars, edits, faults,
                  hist, removed >>

ValidatePattern ==
  /\ pc = "validate_pattern"
  /\ IF ~validate_pattern(args.pattern) THEN Return(1)
     ELSE pc' = "setup_logging" /\ exit' = exit
  /\ UNCHANGED << fsVars, runVars, groups, gi, fi, countVars, edits, faults,
                  hist, removed >>

SetupLogging ==
  /\ pc = "setup_logging"
  /\ LET r == setup_logging(outExists, dst)
     IN outExists' = r.out /\ dst' = r.dst
  /\ pc' = "scan"
  /\ UNCHANGED << src, runVars, exit, groups, gi, fi, countVars, edits, faults,
                  hist, removed >>

\* a main for which a scan without groups is an error
ScanAndGroupNoMatchError ==
  /\ pc = "scan"
  /\ IF args.source = "unreadable"
     THEN /\ Return(1)
          /\ UNCHANGED << groups, gi, fi >>
     ELSE \E order \in Orders(DOMAIN src) :
            /\ groups' = scan_and_group(src, order, args.pattern)
            /\ IF groups' = <<>>
               THEN Return(1) /\ UNCHANGED << gi, fi >>
               ELSE pc' = "group" /\ gi' = 1 /\ fi' = 0 /\ exit' = exit
  /\ UNCHANGED << fsVars, runVars, countVars, edits, faults, hist, removed >>

\* groups = scan_and_group(source_dir, args.pattern); `if not groups`
ScanAndGroup ==
  /\ pc = "scan"
  /\ IF args.source = "unreadable"
     THEN /\ Return(1)
          /\ UNCHANGED << groups, gi, fi >>
     ELSE \E order \in Orders(DOMAIN src) :
            /\ groups' = scan_and_group(src, order, args.pattern)
            /\ IF groups' = <<>>
               THEN Return(0) /\ UNCHANGED << gi, fi >>
               ELSE pc' = "group" /\ gi' = 1 /\ fi' = 0 /\ exit' = exit
  /\ UNCHANGED << fsVars, runVars, countVars, edits, faults, hist, removed >>

\* group_folder = output_dir / group_name; create_folder(group_folder)
CreateFolder ==
  /\ pc = "group"
  /\ IF args.dry_run
     THEN /\ pc' = "file" /\ fi' = 1 /\ exit' = exit
          /\ UNCHANGED << outExists, dst, hist >>
     ELSE LET r == create_folder(outExists, dst, group_name)
          IN /\ outExists' = r.out /\ dst' = r.dst
             /\ hist' = Append(hist, Event("folder", group_name, <<>>, r.ok, <<>>))
             /\ IF r.ok THEN pc' = "file" /\ fi' = 1 /\ exit' = exit
                ELSE Return(1) /\ fi' = fi
  /\ UNCHANGED << src, runVars, groups, gi, countVars, edits, faults, removed >>

\* a main whose preview announces a copy for every file
HandleMergePreviewAll ==
  /\ pc = "file"
  /\ LET target == Target(outExists, dst, group_name, source_file.name)
         should_copy == args.dry_run \/ handle_merge(target)[1]
     IN /\ hist' = Append(hist, Event("resolve", group_name, source_file.name, should_copy,
                                      target.data))
        /\ IF ~should_copy
           THEN files_skipped' = files_skipped + 1 /\ NextFile
           ELSE /\ files_skipped' = files_skipped
                /\ IF args.dry_run THEN NextFile
                   ELSE pc' = "copy" /\ fi' = fi
  /\ UNCHANGED << fsVars, runVars, exit, groups, gi, files_copied, files_deleted,
                  edits, faults, removed >>

\* a main that does not count the duplicates it skips
HandleMergeUncounted ==
  /\ pc = "file"
  /\ LET target == Target(outExists, dst, group_name, source_file.name)
         should_copy == handle_merge(target)[1]
     IN /\ hist' = Append(hist, Event("resolve", group_name, source_file.name, should_copy,
                                      target.data))
        /\ files_skipped' = files_skipped
        /\ IF ~should_copy \/ args.dry_run THEN NextFile
           ELSE pc' = "copy" /\ fi' = fi
  /\ UNCHANGED << fsVars, runVars, exit, groups, gi, files_copied, files_deleted,
                  edits, faults, removed >>

\* a main that deletes the original of a duplicate too
HandleMergeSkipDelete ==
  /\ pc = "file"
  /\ LET target == Target(outExists, dst, group_name, source_file.name)
         should_copy == handle_merge(target)[1]
     IN /\ hist' = Append(hist, Event("resolve", group_name, source_file.name, should_copy,
                                      target.data))
        /\ IF ~should_copy
           THEN /\ files_skipped' = files_skipped + 1
                /\ IF args.delete_originals THEN pc' = "delete" /\ fi' = fi
                   ELSE NextFile
           ELSE /\ files_skipped' = files_skipped
                /\ IF args.dry_run THEN NextFile
                   ELSE pc' = "copy" /\ fi' = fi
  /\ UNCHANGED << fsVars, runVars, exit, groups, gi, files_copied, files_deleted,
                  edits, faults, removed >>

\* a main whose duplicate branch lacks its `continue`
HandleMergeFallThrough ==
  /\ pc = "file"
  /\ LET target == Target(outExists, dst, group_name, source_file.name)
         should_copy == handle_merge(target)[1]
     IN /\ hist' = Append(hist, Event("resolve", group_name, source_file.name, should_copy,
                                      target.data))
        /\ files_skipped' = IF should_copy THEN files_skipped ELSE files_skipped + 1
        /\ IF args.dry_run THEN NextFile
           ELSE pc' = "copy" /\ fi' = fi
  /\ UNCHANGED << fsVars, runVars, exit, groups, gi, files_copied, files_deleted,
                  edits, faults, removed >>

\* should_copy, action = handle_merge(target_path)
HandleMerge ==
  /\ pc = "file"
  /\ LET target == Target(outExists, dst, group_name, source_file.name)
         should_copy == handle_merge(target)[1]
     IN /\ hist' = Append(hist, Event("resolve", group_name, source_file.name, should_copy,
                                      target.data))
        /\ IF ~should_copy
           THEN files_skipped' = files_skipped + 1 /\ NextFile
           ELSE /\ files_skipped' = files_skipped
                /\ IF args.dry_run THEN NextFile
                   ELSE pc' = "copy" /\ fi' = fi
  /\ UNCHANGED << fsVars, runVars, exit, groups, gi, files_copied, files_deleted,
                  edits, faults, removed >>

\* copy_file_with_metadata(source_file.path, target_path)
CopyFile ==
  /\ pc = "copy"
  /\ \E outcome \in CopyOutcomes :
       /\ Inject(outcome)
       /\ LET r == copy_file_with_metadata(src[source_file.name], outcome)
          IN /\ dst' = IF r.wrote
                       THEN WriteTarget(dst, group_name, source_file.name, r.data)
                       ELSE dst
             /\ hist' = Append(hist, Event("copy", group_name, source_file.name, r.ok, <<>>))
  /\ pc' = "verify"
  /\ UNCHANGED << src, outExists, runVars, exit, groups, gi, fi, countVars,
                  edits, removed >>

\* a main that deletes the original after every verified copy
VerifyCopyThenDelete ==
  /\ pc = "verify"
  /\ LET ok == verify_copy(src[source_file.name],
                           Target(outExists, dst, group_name, source_file.name))
     IN /\ hist' = Append(hist, Event("verify", group_name, source_file.name, ok, <<>>))
        /\ files_copied' = IF ok THEN files_copied + 1 ELSE files_copied
        /\ IF ok THEN pc' = "delete" /\ fi' = fi /\ exit' = exit
           ELSE Return(1) /\ fi' = fi
  /\ UNCHANGED << fsVars, runVars, groups, gi, files_skipped, files_deleted,
                  edits, faults, removed >>

\* a main that goes on with the next file when verification fails
VerifyCopyContinue ==
  /\ pc = "verify"
  /\ LET ok == verify_copy(src[source_file.name],
                           Target(outExists, dst, group_name, source_file.name))
     IN /\ hist' = Append(hist, Event("verify", group_name, source_file.name, ok, <<>>))
        /\ files_copied' = IF ok THEN files_copied + 1 ELSE files_copied
        /\ exit' = exit
        /\ IF ok /\ args.delete_originals THEN pc' = "delete" /\ fi' = fi
           ELSE NextFile
  /\ UNCHANGED << fsVars, runVars, groups, gi, files_skipped, files_deleted,
                  edits, faults, removed >>

\* if verify_copy(source_file.path, target_path)
VerifyCopy ==
  /\ pc = "verify"
  /\ LET ok == verify_copy(src[source_file.name],
                           Target(outExists, dst, group_name, source_file.name))
     IN /\ hist' = Append(hist, Event("verify", group_name, source_file.name, ok, <<>>))
        /\ IF ok
           THEN /\ files_copied' = files_copied + 1
                /\ exit' = exit
                /\ IF args.delete_originals THEN pc' = "delete" /\ fi' = fi
                   ELSE NextFile
           ELSE /\ Return(1)
                /\ UNCHANGED << files_copied, fi >>
  /\ UNCHANGED << fsVars, runVars, groups, gi, files_skipped, files_deleted,
                  edits, faults, removed >>

\* a main that returns 1 when delete_original fails
DeleteOriginalAbort ==
  /\ pc = "delete"
  /\ \E outcome \in DeleteOutcomes :
       /\ Inject(outcome)
       /\ LET r == delete_original(src, source_file.name, outcome)
          IN /\ src' = r.dir
             /\ removed' = IF r.ok THEN removed \cup { source_file.name } ELSE removed
             /\ hist' = Append(hist, Event("delete", group_name, source_file.name, r.ok, <<>>))
             /\ files_deleted' = IF r.ok THEN files_deleted + 1 ELSE files_deleted
             /\ IF r.ok THEN NextFile /\ exit' = exit
                ELSE Return(1) /\ fi' = fi
  /\ UNCHANGED << outExists, dst, runVars, groups, gi, files_copied,
                  files_skipped, edits >>

\* delete_original(source_file.path); files_deleted += 1
DeleteOriginal ==
  /\ pc = "delete"
  /\ \E outcome \in DeleteOutcomes :
       /\ Inject(outcome)
       /\ LET r == delete_original(src, source_file.name, outcome)
          IN /\ src' = r.dir
             /\ removed' = IF r.ok THEN removed \cup { source_file.name } ELSE removed
             /\ hist' = Append(hist, Event("delete", group_name, source_file.name, r.ok, <<>>))
  /\ files_deleted' = files_deleted + 1
  /\ NextFile
  /\ UNCHANGED << outExists, dst, runVars, exit, groups, gi, files_copied,
                  files_skipped, edits >>

\* a main that goes on with the next group when create_zip fails
CreateZipContinue ==
  /\ pc = "zip"
  /\ IF args.dry_run
     THEN /\ NextGroup /\ exit' = exit
          /\ UNCHANGED << dst, hist, faults >>
     ELSE \E outcome \in ZipOutcomes :
            /\ Inject(outcome)
            /\ LET r == create_zip(outExists, dst, group_name, outcome)
               IN /\ dst' = r.dst
                  /\ hist' = Append(hist, Event("zip", group_name, <<>>, r.ok, <<>>))
                  /\ IF r.ok /\ args.zip_only
                     THEN pc' = "rmtree" /\ exit' = exit /\ UNCHANGED << gi, fi >>
                     ELSE NextGroup /\ exit' = exit
  /\ UNCHANGED << src, outExists, runVars, groups, countVars, edits, removed >>

\* zip_path = output_dir / f"{group_name}.zip"; create_zip(group_folder, zip_path)
CreateZip ==
  /\ pc = "zip"
  /\ IF args.dry_run
     THEN /\ NextGroup /\ exit' = exit
          /\ UNCHANGED << dst, hist, faults >>
     ELSE \E outcome \in ZipOutcomes :
            /\ Inject(outcome)
            /\ LET r == create_zip(outExists, dst, group_name, outcome)
               IN /\ dst' = r.dst
                  /\ hist' = Append(hist, Event("zip", group_name, <<>>, r.ok, <<>>))
                  /\ IF ~r.ok THEN Return(1) /\ UNCHANGED << gi, fi >>
                     ELSE IF args.zip_only
                          THEN pc' = "rmtree" /\ exit' = exit /\ UNCHANGED << gi, fi >>
                          ELSE NextGroup /\ exit' = exit
  /\ UNCHANGED << src, outExists, runVars, groups, countVars, edits, removed >>

\* if args.zip_only: shutil.rmtree(group_folder)
RemoveFolder ==
  /\ pc = "rmtree"
  /\ LET r == rmtree(outExists, dst, group_name)
     IN outExists' = r.out /\ dst' = r.dst
  /\ hist' = Append(hist, Event("rmtree", group_name, <<>>, TRUE, <<>>))
  /\ NextGroup
  /\ UNCHANGED << src, runVars, exit, groups, countVars, edits, faults, removed >>

\* the summary is printed; return 0
Summary ==
  /\ pc = "summary"
  /\ Return(0)
  /\ UNCHANGED << fsVars, runVars, groups, gi, fi, countVars, edits, faults,
                  hist, removed >>

Next ==
  \/ EditSource
  \/ Start
  \/ ValidateArguments
  \/ CheckSource
  \/ ValidatePattern
  \/ SetupLogging
  \/ ScanAndGroup
  \/ CreateFolder
  \/ HandleMerge
  \/ CopyFile
  \/ VerifyCopy
  \/ DeleteOriginal
  \/ CreateZip
  \/ RemoveFolder
  \/ Summary

Spec == Init /\ [][Next]_vars

(***************************************************************************)
(* Properties.                                                             *)
(***************************************************************************)
Running == pc \notin { "idle", "done" }
InRun == pc # "idle" /\ runs > 0
Last(h) == h[Len(h)]
TargetOf(e) == Target(outExists, dst, e.g, e.f)

\* the files of all groups of the scan, as <<group name, file name>>
Matched ==
  UNION { { <<groups[i].name, groups[i].files[j].name>> : j \in DOMAIN groups[i].files } :
            i \in DOMAIN groups }

MatchedFiles == { m[2] : m \in Matched }

\* the events of the current run that skipped a file as a duplicate
Skips == { i \in DOMAIN hist : hist[i].ev = "resolve" /\ ~hist[i].ok }

(***************************************************************************)
(* C1  Never overwrite.  Whenever main resolves a file whose target path   *)
(* exists, it counts the file as skipped and goes on to the next file      *)
(* without writing; and in every later state of the run the target, while  *)
(* it exists, has the content found at that moment, whatever the source    *)
(* file holds.  Unless the run is zip-only (which removes the folder) the  *)
(* target still exists.  This holds in every run of a sequence of runs.    *)
(***************************************************************************)
C1_SkipStep ==
  (pc = "file" /\ Target(outExists, dst, group_name, source_file.name).exists)
    => /\ files_skipped' = files_skipped + 1
       /\ pc' \in { "file", "zip" }
       /\ fsVars' = fsVars

C1_Kept ==
  \A i \in Skips :
    /\ TargetOf(hist[i]).exists => TargetOf(hist[i]).data = hist[i].data
    /\ ~args.zip_only => TargetOf(hist[i]).exists

C1_NeverOverwrite == [][C1_SkipStep]_vars /\ [](InRun => C1_Kept)

\* a finished run that skipped a file whose source differs from the target
\* in content and in size
C1_Witness ==
  /\ pc = "done" /\ exit = 0 /\ runs = 2
  /\ \E i \in Skips :
       /\ hist[i].f \in DOMAIN src
       /\ Size(src[hist[i].f].data) # Size(hist[i].data)
       /\ TargetOf(hist[i]).exists
       /\ files_skipped > 0

(***************************************************************************)
(* C2  Under delete-originals an original is removed only after its copy   *)
(* was written and verified in the same run.  Every step that removes an   *)
(* entry of the source directory is the delete step of a run with          *)
(* delete-originals, removes the file main is at, and is taken when the    *)
(* last step of the run was a successful verify_copy of that file and the  *)
(* group folder holds a file of that base name and of the same byte size.  *)
(***************************************************************************)
C2_DeleteStep ==
  \A n \in DOMAIN src :
    n \notin DOMAIN src' =>
      /\ pc = "delete" /\ args.delete_originals
      /\ n = source_file.name
      /\ hist # <<>>
      /\ Last(hist) = Event("verify", group_name, n, TRUE, <<>>)
      /\ \E i \in DOMAIN hist : hist[i].ev = "copy" /\ hist[i].f = n
      /\ Target(outExists, dst, group_name, n).exists
      /\ Size(Target(outExists, dst, group_name, n).data) = Size(src[n].data)

C2_DeleteAfterVerify == [][C2_DeleteStep]_vars

\* a run has removed an original
C2_Witness == pc = "done" /\ args.delete_originals /\ removed # {} /\ exit = 0

(***************************************************************************)
(* C3  Idempotence.  When a run without dry-run, delete-originals and      *)
(* zip-only succeeds and is repeated with the same command line on the     *)
(* unchanged source, then after the second run every group folder holds    *)
(* the same files and every archive the same entry names as after the      *)
(* first, and the second run copied nothing and skipped every matched      *)
(* file.                                                                   *)
(***************************************************************************)
Plain(a) == ~a.dry_run /\ ~a.delete_originals /\ ~a.zip_only

\* the current run repeats the previous one, and both have succeeded
Repeated ==
  /\ pc = "done" /\ exit = 0 /\ Plain(args)
  /\ prev.ran /\ prev.exit = 0 /\ prev.args = args /\ prev.src0 = src0

\* the names of the files of a group folder, and of the entries of its archive
FolderNames(out, d, g) == DOMAIN FolderFiles(out, d, g)
ArchiveNames(out, d, g) ==
  IF out /\ ZipName(g) \in DOMAIN d /\ d[ZipName(g)].kind = "zip"
  THEN DOMAIN d[ZipName(g)].files
  ELSE { ZipName(g) }

C3_Idempotent ==
  Repeated =>
    /\ \A i \in DOMAIN groups :
         /\ FolderIsDir(outExists, dst, groups[i].name)
         /\ FolderNames(outExists, dst, groups[i].name)
              = FolderNames(outExists0, dst0, groups[i].name)
         /\ ArchiveNames(outExists, dst, groups[i].name)
              = ArchiveNames(outExists0, dst0, groups[i].name)
    /\ files_copied = 0
    /\ files_skipped = Cardinality(Matched)

(***************************************************************************)
(* C4  Per-file protocol order.  In every state of a run the steps taken   *)
(* for a file are, in this order: resolve collision, copy, verify, delete  *)
(* original.  A skipped file (and every file of a preview run) has the     *)
(* resolve step only; delete happens only with delete-originals and after  *)
(* a successful verify; the steps of a file are consecutive, and when a    *)
(* later step of the run exists the file's protocol was complete.          *)
(***************************************************************************)
StepsOf(f) == SelectSeq(hist, LAMBDA e : e.f = f)
IndexOf(f) == { i \in DOMAIN hist : hist[i].f = f }

InOrder(q) ==
  /\ Len(q) <= 4
  /\ Len(q) >= 1 => q[1].ev = "resolve"
  /\ Len(q) >= 2 => q[1].ok /\ ~args.dry_run /\ q[2].ev = "copy"
  /\ Len(q) >= 3 => q[3].ev = "verify"
  /\ Len(q) >= 4 => q[3].ok /\ args.delete_originals /\ q[4].ev = "delete"

Complete(q) ==
  \/ Len(q) = 1 /\ (~q[1].ok \/ args.dry_run)
  \/ Len(q) = 3 /\ q[3].ok /\ ~args.delete_originals
  \/ Len(q) = 4

C4_ProtocolOrder ==
  InRun =>
    \A f \in Names :
      /\ InOrder(StepsOf(f))
      /\ \A i, j \in IndexOf(f) : \A k \in i..j : hist[k].f = f
      /\ (\E i \in IndexOf(f) : \E k \in DOMAIN hist : k > i /\ hist[k].f # f)
           => Complete(StepsOf(f))
      /\ (pc = "done" /\ exit = 0 /\ f \in MatchedFiles) => Complete(StepsOf(f))

\* a finished run with delete-originals in which a file went through all
\* four steps, a file was skipped, and a file followed another
C4_Witness ==
  /\ pc = "done" /\ exit = 0 /\ args.delete_originals
  /\ \E f, g, h \in Names :
       /\ f # g
       /\ Len(StepsOf(f)) = 4
       /\ Len(StepsOf(g)) = 1
       /\ Len(StepsOf(h)) > 1 /\ \E i \in IndexOf(h) : i > 1 /\ hist[i - 1].ev = "delete"

(***************************************************************************)
(* C5  A copy verification failure is fatal.  When verify_copy has         *)
(* returned false for a file, that was the last step of the run: main has  *)
(* returned 1 while still at that file and group, the original is still    *)
(* in the source directory with its content, and the run has not created   *)
(* or rewritten the archive of the group.                                  *)
(***************************************************************************)
VerifyFailures == { i \in DOMAIN hist : hist[i].ev = "verify" /\ ~hist[i].ok }

C5_VerifyFailureFatal ==
  InRun =>
    \A i \in VerifyFailures :
      LET f == hist[i].f
          g == hist[i].g
      IN /\ i = Len(hist)
         /\ pc = "done" /\ exit = 1
         /\ group_name = g /\ source_file.name = f
         /\ f \in DOMAIN src /\ src[f] = src0[f] /\ f \notin removed
         /\ \A k \in DOMAIN hist : hist[k].ev \in { "zip", "rmtree" } => hist[k].g # g
         /\ ZipName(g) \in DOMAIN dst =>
              ZipName(g) \in DOMAIN dst0 /\ dst[ZipName(g)] = dst0[ZipName(g)]

\* verification failed in a run with delete-originals, with a file and a
\* group still to come
C5_Witness ==
  /\ pc = "done" /\ VerifyFailures # {}
  /\ args.delete_originals
  /\ fi < Len(group.files) /\ gi < Len(groups)

(***************************************************************************)
(* C6  A failed copy is a recoverable per-file error.  When                *)
(* copy_file_with_metadata has reported a failure for a file, the run has  *)
(* not aborted at that file: it goes on with the next one.                 *)
(***************************************************************************)
CopyFailures == { i \in DOMAIN hist : hist[i].ev = "copy" /\ ~hist[i].ok }

C6_CopyFailureRecoverable ==
  InRun =>
    \A i \in CopyFailures :
      ~(pc = "done" /\ exit # 0 /\ source_file.name = hist[i].f)

(***************************************************************************)
(* C7  A failure to delete an original is not fatal.  The step in which    *)
(* delete_original reports a failure leaves the source and the output      *)
(* directory as they were and main goes on with the next file or with the  *)
(* archive of the group; when such a run then returns 0, every matched     *)
(* file has been through its protocol and every group has its archive      *)
(* step.                                                                   *)
(***************************************************************************)
DeleteFailures == { i \in DOMAIN hist : hist[i].ev = "delete" /\ ~hist[i].ok }

C7_DeleteFailStep ==
  (pc = "delete" /\ hist' # hist /\ ~Last(hist').ok)
    => /\ fsVars' = fsVars
       /\ pc' \in { "file", "zip" }
       /\ exit' = exit

C7_Finished ==
  (pc = "done" /\ exit = 0 /\ DeleteFailures # {})
    => /\ \A f \in MatchedFiles : Complete(StepsOf(f))
       /\ \A i \in DOMAIN groups :
            \E k \in DOMAIN hist : hist[k].ev = "zip" /\ hist[k].g = groups[i].name

\* delete_original on a file that is not there
C7_Missing ==
  \A n \in Names \ DOMAIN src :
    delete_original(src, n, "ok") = [ok |-> FALSE, dir |-> src]

C8_DeletedCount ==
  (pc = "done" /\ exit = 0 /\ args.delete_originals)
    => files_deleted = Cardinality(removed)

(***************************************************************************)
(* C9  Validation errors are reported before any filesystem mutation.  In  *)
(* a run whose pattern is empty, blank or not a regular expression, whose  *)
(* source is missing or not a directory, or whose preview flag comes with  *)
(* delete-originals or zip-only, main never gets past its validation       *)
(* steps, returns an error, and the source, the destination directory and  *)
(* its log file are as they were when the run started.                     *)
(***************************************************************************)
BadFlags(a) == a.dry_run /\ (a.delete_originals \/ a.zip_only)

InvalidInput(a) ==
  \/ BadFlags(a)
  \/ a.source \in { "missing", "file" }
  \/ a.pattern \in InvalidPatterns

Untouched == src = src0 /\ outExists = outExists0 /\ dst = dst0

C9_ValidationBeforeMutation ==
  (InRun /\ InvalidInput(args))
    => /\ Untouched
       /\ pc \in { "validate_arguments", "check_source", "validate_pattern", "done" }
       /\ pc = "done" => exit # 0
       /\ hist = <<>>

\* preview with zip-only on a readable source with files, refused with
\* no destination directory made
C9_Witness ==
  /\ pc = "done" /\ exit # 0
  /\ args.dry_run /\ args.zip_only /\ args.source = "dir"
  /\ args.pattern \in ValidPatterns
  /\ src # EmptyMap /\ ~outExists

(***************************************************************************)
(* C10  A preview run performs no filesystem mutation: whatever the source *)
(* and the destination are, a run with the preview flag and valid          *)
(* arguments leaves the source and the destination as they were and        *)
(* returns 0.                                                              *)
(***************************************************************************)
C10_DryRunNoMutation ==
  (InRun /\ args.dry_run /\ ~InvalidInput(args))
    => /\ Untouched
       /\ pc = "done" => exit = 0

(***************************************************************************)
(* C11  Fatal errors are surfaced with an exit status of their own.  When  *)
(* a run ends on a copy verification failure or an archive failure and the *)
(* run before it ended on a validation error, the two exit statuses differ *)
(* from each other and from 0.                                             *)
(***************************************************************************)
FatalEnd ==
  /\ pc = "done" /\ hist # <<>>
  /\ Last(hist).ev \in { "verify", "zip" } /\ ~Last(hist).ok

C11_FatalExitDistinct ==
  (FatalEnd /\ prev.ran /\ InvalidInput(prev.args))
    => /\ exit # prev.exit
       /\ exit # 0
       /\ prev.exit # 0

(***************************************************************************)
(* What a pattern matches, stated on the regular expression itself and not *)
(* by the matcher: t is in the language of items[k..].                     *)
(***************************************************************************)
RECURSIVE Denotes(_, _, _)
Denotes(items, k, t) ==
  IF k > Len(items) THEN t = <<>>
  ELSE LET it == items[k]
           one == t # <<>> /\ AtomMatches(it.atom, t[1])
                           /\ Denotes(items, k + 1, Tail(t))
       IN CASE it.q = <<>> -> one
            [] it.q \in { <<"?">>, <<"?", "?">> } -> Denotes(items, k + 1, t) \/ one
            [] OTHER ->
                 \E n \in 0..Len(t) :
                   /\ \A j \in 1..n : AtomMatches(it.atom, t[j])
                   /\ Denotes(items, k + 1, SubSeq(t, n + 1, Len(t)))

\* the substring f[i..j-1] matches the pattern
MatchesAt(f, p, i, j) == Denotes(Items(p, 1), 1, SubSeq(f, i, j - 1))

\* the pattern matches somewhere in f
MatchesIn(f, p) ==
  \E i \in 1..(Len(f) + 1) : \E j \in i..(Len(f) + 1) : MatchesAt(f, p, i, j)

(***************************************************************************)
(* C12  No-match is a successful no-op.  In a run with valid arguments on  *)
(* a readable source none of whose regular files matches the pattern       *)
(* (an empty source included), scan_and_group returns no group whatever    *)
(* the iteration order, main never enters the group loop, the source is    *)
(* untouched, the destination differs from what it was at most by its log  *)
(* file, all counts are 0, and main returns 0.                             *)
(***************************************************************************)
NoMatchRun ==
  /\ InRun /\ ~InvalidInput(args) /\ args.source = "dir"
  /\ \A n \in DOMAIN src0 : IsFile(src0[n]) => ~MatchesIn(n, args.pattern)

SameButLog(d, e) ==
  /\ DOMAIN d \ { LogName } = DOMAIN e \ { LogName }
  /\ \A n \in DOMAIN d \ { LogName } : d[n] = e[n]

C12_NoMatchNoOp ==
  NoMatchRun
    => /\ \A order \in Orders(DOMAIN src0) :
            scan_and_group(src0, order, args.pattern) = <<>>
       /\ pc \in { "validate_arguments", "check_source", "validate_pattern",
                   "setup_logging", "scan", "done" }
       /\ groups = <<>> /\ hist = <<>>
       /\ src = src0 /\ removed = {}
       /\ SameButLog(dst, dst0)
       /\ files_copied = 0 /\ files_skipped = 0 /\ files_deleted = 0
       /\ pc = "done" => exit = 0

\* a finished run with delete-originals and zip-only on a source that holds
\* files, none matching
C12_Witness ==
  /\ NoMatchRun /\ pc = "done" /\ exit = 0
  /\ src0 # EmptyMap
  /\ args.delete_originals /\ args.zip_only

(***************************************************************************)
(* C13  scan_and_group partitions the matched files.  Once a run has       *)
(* scanned, every regular file of the source whose name matches the        *)
(* pattern is at exactly one place of exactly one group, the group named   *)
(* extract_group of its name, and carries that name in its group field;    *)
(* every file of a group is such a file; and no group is empty.            *)
(***************************************************************************)
Scanned ==
  /\ InRun /\ ~InvalidInput(args) /\ args.source = "dir"
  /\ pc \notin { "validate_arguments", "check_source", "validate_pattern",
                 "setup_logging", "scan" }

\* the places <<i, j>> of the scan's result that hold the file named n
PlacesOf(n) ==
  { ij \in (DOMAIN groups) \X (1..Cardinality(Names)) :
      ij[2] \in DOMAIN groups[ij[1]].files /\ groups[ij[1]].files[ij[2]].name = n }

Matching(n) ==
  /\ n \in DOMAIN src0 /\ src0[n].kind # "dir"
  /\ MatchesIn(n, args.pattern)

C13_ScanPartitions ==
  Scanned =>
    /\ \A n \in Names :
         IF Matching(n)
         THEN /\ Cardinality(PlacesOf(n)) = 1
              /\ \A ij \in PlacesOf(n) :
                   /\ extract_group(n, args.pattern).some
                   /\ groups[ij[1]].name = extract_group(n, args.pattern).val
                   /\ groups[ij[1]].files[ij[2]].group = groups[ij[1]].name
         ELSE PlacesOf(n) = {}
    /\ \A i \in DOMAIN groups : groups[i].files # <<>>

\* a scan of a source with a sub-directory and a non-matching file, giving
\* a group of one file
C13_Witness ==
  /\ Scanned /\ Len(groups) = 1 /\ Len(groups[1].files) = 1
  /\ \E n \in DOMAIN src0 : src0[n].kind = "dir"
  /\ \E n \in DOMAIN src0 : src0[n].kind # "dir" /\ ~MatchesIn(n, args.pattern)

(***************************************************************************)
(* C14  scan_and_group returns groups with pairwise distinct identifiers,  *)
(* in the order in which each identifier first appears in the directory    *)
(* iteration, the files of each group in iteration order.  Stated right    *)
(* after the scan of a run, of the result for every iteration order, one   *)
(* of which gave the groups main holds.                                    *)
(***************************************************************************)
Pos(order, n) == CHOOSE k \in DOMAIN order : order[k] = n

\* the first iteration position of a file of the group
FirstPos(order, g) ==
  CHOOSE k \in DOMAIN order :
    /\ \E j \in DOMAIN g.files : Pos(order, g.files[j].name) = k
    /\ \A j \in DOMAIN g.files : Pos(order, g.files[j].name) >= k

ScanOrdered(order, gs) ==
  /\ \A i, j \in DOMAIN gs : i # j => gs[i].name # gs[j].name
  /\ \A i, j \in DOMAIN gs : i < j => FirstPos(order, gs[i]) < FirstPos(order, gs[j])
  /\ \A i \in DOMAIN gs : \A a, b \in DOMAIN gs[i].files :
       a < b => Pos(order, gs[i].files[a].name) < Pos(order, gs[i].files[b].name)

JustScanned == Scanned /\ pc = "group" /\ gi = 1 /\ hist = <<>>

C14_ScanOrder ==
  JustScanned =>
    /\ \A order \in Orders(DOMAIN src0) :
         ScanOrdered(order, scan_and_group(src0, order, args.pattern))
    /\ \E order \in Orders(DOMAIN src0) :
         groups = scan_and_group(src0, order, args.pattern)

\* the scan gave group b before group a, and a2 before a1 in group a
C14_Witness ==
  /\ JustScanned /\ Len(groups) = 2
  /\ groups[1].name = <<"b">> /\ groups[2].name = <<"a">>
  /\ Len(groups[2].files) = 2
  /\ groups[2].files[1].name = <<"a", "2">>

(***************************************************************************)
(* extract_group as a pure function: the runs of main on a source          *)
(* directory that holds one file, whose name is any string of at most      *)
(* MaxLen characters over Alphabet, with any of TestPatterns, up to the    *)
(* scan, where extract_group is applied to the name.                       *)
(***************************************************************************)
MaxLen == 3

Alphabet == { "a", "b", "1" }

TestNames == UNION { [1..n -> Alphabet] : n \in 1..MaxLen }

\* `a`, `a\d`, `a*`, `.`, `a?b`, `a*?`, `a*?b`, `.*1`, `.*?1`, `\d??b`,
\* `ba*`, `.\d`, `b?a?`
TestPatterns ==
  ValidPatterns \cup
  { <<"a", "?", "b">>, <<"a", "*", "?">>, <<"a", "*", "?", "b">>,
    <<".", "*", "1">>, <<".", "*", "?", "1">>, <<"\\d", "?", "?", "b">>,
    <<"b", "a", "*">>, <<".", "\\d">>, <<"b", "?", "a", "?">> }

InitExtract ==
  /\ src \in { [n \in { f } |-> FileEntry(InitData(f))] : f \in TestNames }
  /\ userPattern \in TestPatterns
  /\ outExists = FALSE /\ dst = EmptyMap
  /\ args = NoArgs /\ pc = "idle" /\ exit = 0
  /\ groups = <<>> /\ gi = 0 /\ fi = 0
  /\ files_copied = 0 /\ files_skipped = 0 /\ files_deleted = 0
  /\ runs = 0 /\ edits = 0 /\ faults = 0
  /\ hist = <<>>
  /\ src0 = src /\ outExists0 = FALSE /\ dst0 = EmptyMap
  /\ removed = {} /\ prev = NoPrev

NextExtract ==
  \/ Start
  \/ ValidateArguments
  \/ CheckSource
  \/ ValidatePattern
  \/ SetupLogging
  \/ ScanAndGroup

SpecExtract == InitExtract /\ [][NextExtract]_vars

(***************************************************************************)
(* C15  For every filename f and pattern p, extract_group(f, p) is none    *)
(* exactly when p matches nowhere in f, and otherwise a substring of f     *)
(* that matches p and starts at the leftmost position where any match      *)
(* starts; the scan of the one-file directory gives no group in the first  *)
(* case and one group named by that substring in the second.               *)
(***************************************************************************)
LeftmostMatch(f, p, v) ==
  \E i \in 1..(Len(f) + 1) :
    /\ i + Len(v) <= Len(f) + 1
    /\ v = SubSeq(f, i, i + Len(v) - 1)
    /\ MatchesAt(f, p, i, i + Len(v))
    /\ \A k \in 1..(i - 1) : \A j \in k..(Len(f) + 1) : ~MatchesAt(f, p, k, j)

ExtractCorrect(f, p) ==
  LET r == extract_group(f, p)
  IN /\ r.some <=> MatchesIn(f, p)
     /\ r.some => LeftmostMatch(f, p, r.val)
     /\ ~r.some => r = None

C15_ExtractGroup ==
  /\ validate_pattern(userPattern)
  /\ \A f \in DOMAIN src0 :
       /\ ExtractCorrect(f, userPattern)
       /\ Scanned =>
            IF extract_group(f, userPattern).some
            THEN /\ Len(groups) = 1
                 /\ groups[1].name = extract_group(f, userPattern).val
                 /\ LeftmostMatch(f, userPattern, groups[1].name)
            ELSE groups = <<>>

\* the scan of a directory whose file has a name of three characters, with
\* the lazy pattern `.*?1`, gave a group named by two of them
C15_Witness ==
  /\ Scanned /\ Len(groups) = 1
  /\ userPattern = <<".", "*", "?", "1">>
  /\ \E f \in DOMAIN src0 : Len(f) = 3 /\ Len(groups[1].name) = 2

(***************************************************************************)
(* C16  Distinct groups of one scan never write to the same path.  For     *)
(* the groups of a scan: the folder of a group is an entry of the          *)
(* destination directory, never that directory itself; the folders of two  *)
(* groups differ, their archives differ, and the folder of one is not the  *)
(* archive of the other.                                                   *)
(***************************************************************************)
C16_DistinctPaths ==
  Scanned =>
    \A i, j \in DOMAIN groups :
      /\ ~IsRoot(groups[i].name)
      /\ i # j => /\ groups[i].name # groups[j].name
                  /\ ZipName(groups[i].name) # ZipName(groups[j].name)
                  /\ groups[i].name # ZipName(groups[j].name)

(***************************************************************************)
(* C17  After create_zip succeeds, the entry names of the archive are      *)
(* exactly the base names of the regular files directly in the folder      *)
(* when create_zip was called: every step of main in which create_zip      *)
(* succeeds leaves at the archive path an archive whose entries are named  *)
(* as the regular files the folder held before the step, whatever was at   *)
(* that path before.                                                       *)
(***************************************************************************)
ZipSucceeds == pc = "zip" /\ hist' # hist /\ Last(hist').ev = "zip" /\ Last(hist').ok

C17_ZipStep ==
  ZipSucceeds =>
    /\ ZipName(group_name) \in DOMAIN dst'
    /\ dst'[ZipName(group_name)].kind = "zip"
    /\ DOMAIN dst'[ZipName(group_name)].files
         = DOMAIN FolderFiles(outExists, dst, group_name)

C17_ArchiveEntries == [][C17_ZipStep]_vars

(***************************************************************************)
(* C18  Archive round-trip.  Every step of main in which create_zip        *)
(* succeeds leaves an archive that has, for each regular file the folder   *)
(* held when create_zip was called, an entry with the file's base name     *)
(* whose content is the content of the file.                               *)
(***************************************************************************)
C18_ZipStep ==
  ZipSucceeds =>
    LET before == FolderFiles(outExists, dst, group_name)
        entries == dst'[ZipName(group_name)].files
    IN \A n \in DOMAIN before : n \in DOMAIN entries /\ entries[n] = before[n]

C18_RoundTrip == [][C18_ZipStep]_vars

(***************************************************************************)
(* C19  create_zip fails with a not-found error when the folder does not   *)
(* exist and then leaves the archive path alone.  Stated of create_zip     *)
(* applied, in any state the destination can be in, to any group folder    *)
(* that is not there: it raises FileNotFoundError, and the destination,    *)
(* the archive of an earlier run included, is as it was.                   *)
(***************************************************************************)
GroupNames == { <<>>, <<"a">>, <<"b">>, <<"a", "1">>, <<"a", "2">>, <<"b", "1">> }

C19_ZipNotFound ==
  \A g \in GroupNames : \A outcome \in ZipOutcomes :
    ~FolderExists(outExists, dst, g) =>
      LET r == create_zip(outExists, dst, g, outcome)
      IN /\ ~r.ok /\ r.err = "FileNotFoundError"
         /\ r.dst = dst
         /\ ZipName(g) \in DOMAIN dst =>
              /\ ZipName(g) \in DOMAIN r.dst
              /\ r.dst[ZipName(g)].files = dst[ZipName(g)].files

\* after a zip-only run: the folder of group a is gone, its archive is there
\* with an entry
C19_Witness ==
  /\ pc = "done" /\ exit = 0 /\ args.zip_only
  /\ ~FolderExists(outExists, dst, <<"a">>)
  /\ <<"a", ".zip">> \in DOMAIN dst
  /\ dst[<<"a", ".zip">>].files # EmptyMap
  /\ ~create_zip(outExists, dst, <<"a">>, "ok").ok

(***************************************************************************)
(* C20  An archive failure is fatal without rollback.  The step in which   *)
(* create_zip fails ends the run with an error status and changes nothing  *)
(* but, possibly, the archive path of the group at hand: the source, the   *)
(* folders, the copied files and the archives of the other groups stay as  *)
(* they are.  After it, in that run, no later group has had any step.      *)
(***************************************************************************)
ZipFailures == { i \in DOMAIN hist : hist[i].ev = "zip" /\ ~hist[i].ok }

C20_FailStep ==
  (pc = "zip" /\ hist' # hist /\ ~Last(hist').ok)
    => /\ pc' = "done" /\ exit' # 0
       /\ src' = src /\ outExists' = outExists
       /\ \A n \in DOMAIN dst \ { ZipName(group_name) } :
            n \in DOMAIN dst' /\ dst'[n] = dst[n]
       /\ DOMAIN dst' \subseteq DOMAIN dst \cup { ZipName(group_name) }

C20_Fatal ==
  \A i \in ZipFailures :
    /\ i = Len(hist)
    /\ pc = "done" /\ exit # 0
    /\ group_name = hist[i].g
    /\ \A j \in (gi + 1)..Len(groups) : \A k \in DOMAIN hist :
         hist[k].g # groups[j].name
    /\ \A j \in 1..(gi - 1) :
         \E k \in DOMAIN hist : hist[k].ev = "zip" /\ hist[k].ok /\ hist[k].g = groups[j].name

C20_ZipFailureFatal == [][C20_FailStep]_vars /\ [](InRun => C20_Fatal)

\* create_zip failed for the first of two groups, after its file was copied
C20_Witness ==
  /\ pc = "done" /\ ZipFailures # {}
  /\ gi = 1 /\ Len(groups) = 2
  /\ files_copied > 0
  /\ Target(outExists, dst, group_name, group.files[1].name).exists

(***************************************************************************)
(* C21  Groups are processed strictly one at a time in scan order.  In a   *)
(* non-preview run the steps recorded so far go through the groups in      *)
(* scan order without returning to an earlier group; an archive step comes *)
(* after every file of its group was resolved and, unless skipped, copied  *)
(* and verified;                                                           *)
(* and every step of a group other than the first comes after the archive  *)
(* of the group before it was created.                                     *)
(***************************************************************************)
GIdx(g) == CHOOSE j \in DOMAIN groups : groups[j].name = g

C21_OneGroupAtATime ==
  (InRun /\ ~args.dry_run) =>
    /\ \A k \in DOMAIN hist : \E j \in DOMAIN groups : groups[j].name = hist[k].g
    /\ \A k1, k2 \in DOMAIN hist : k1 < k2 => GIdx(hist[k1].g) <= GIdx(hist[k2].g)
    /\ \A k \in DOMAIN hist :
         hist[k].ev = "zip" =>
           \A i \in DOMAIN groups[GIdx(hist[k].g)].files :
             LET f == groups[GIdx(hist[k].g)].files[i].name
             IN \E r \in 1..(k - 1) :
                  /\ hist[r].ev = "resolve" /\ hist[r].f = f /\ hist[r].g = hist[k].g
                  /\ hist[r].ok =>
                       \E c \in (r + 1)..(k - 1) :
                         hist[c].ev = "verify" /\ hist[c].f = f /\ hist[c].ok
    /\ \A k \in DOMAIN hist :
         GIdx(hist[k].g) > 1 =>
           \E z \in 1..(k - 1) :
             /\ hist[z].ev = "zip" /\ hist[z].ok
             /\ hist[z].g = groups[GIdx(hist[k].g) - 1].name

\* a finished run over two groups, one of them with two files
C21_Witness ==
  /\ pc = "done" /\ exit = 0 /\ ~args.dry_run /\ Scanned
  /\ Len(groups) = 2 /\ Cardinality(MatchedFiles) = 3
  /\ files_copied = 3

(***************************************************************************)
(* C22  verify_copy(source, target) is true if and only if the target      *)
(* exists and has the byte size of the source: false for a missing or a    *)
(* truncated target, true for a target of the same size with another       *)
(* content.  Stated of the function on all sources and targets with        *)
(* contents in Datas, and of the verification main has just made.          *)
(***************************************************************************)
Datas == { <<>>, <<"x">>, <<"y">>, <<"x", "x">>, <<"y", "y">>, <<"x", "y">> }

VerifyTable ==
  \A s \in Datas : \A t \in Datas : \A e \in BOOLEAN :
    verify_copy(FileEntry(s), [exists |-> e, data |-> t])
      = (e /\ Size(s) = Size(t))

JustVerified == InRun /\ hist # <<>> /\ Last(hist).ev = "verify"

C22_VerifyCopy ==
  /\ VerifyTable
  /\ JustVerified =>
       LET f == Last(hist).f
           target == Target(outExists, dst, Last(hist).g, f)
       IN Last(hist).ok <=> (target.exists /\ Size(target.data) = Size(src[f].data))

\* main has just verified a truncated copy: the target exists, shorter than
\* the source, and verification failed
C22_Witness ==
  /\ JustVerified /\ ~Last(hist).ok
  /\ Target(outExists, dst, Last(hist).g, Last(hist).f).exists
  /\ Size(Target(outExists, dst, Last(hist).g, Last(hist).f).data)
       < Size(src[Last(hist).f].data)

(***************************************************************************)
(* C23  After a successful non-preview run without zip-only from an empty  *)
(* destination, every group of the scan has its folder, an entry of the    *)
(* destination holding exactly the group's files with their source         *)
(* content, and its archive with exactly those entries; and the            *)
(* destination holds nothing else but the log file.                        *)
(***************************************************************************)
FreshPlainDone ==
  /\ pc = "done" /\ exit = 0 /\ Scanned
  /\ ~args.dry_run /\ ~args.zip_only
  /\ dst0 = EmptyMap

GroupFileNames(g) == { g.files[i].name : i \in DOMAIN g.files }

GroupOutput(g) ==
  /\ g.name \in DOMAIN dst /\ dst[g.name].kind = "dir"
  /\ dst[g.name].files = [n \in GroupFileNames(g) |-> src0[n].data]
  /\ ZipName(g.name) \in DOMAIN dst /\ dst[ZipName(g.name)].kind = "zip"
  /\ dst[ZipName(g.name)].files = [n \in GroupFileNames(g) |-> src0[n].data]

C23_OutputLayout ==
  FreshPlainDone =>
    /\ \A i \in DOMAIN groups : GroupOutput(groups[i])
    /\ DOMAIN dst = { groups[i].name : i \in DOMAIN groups }
                      \cup { ZipName(groups[i].name) : i \in DOMAIN groups }
                      \cup { LogName }

(***************************************************************************)
(* C24  Source frame.  In every state of a run, every entry of the source  *)
(* directory was there, with the same content, when the run started; an    *)
(* entry that is gone is a matched regular file, gone in a run with        *)
(* delete-originals after its copy and its successful verification in      *)
(* this run; unmatched files and sub-directories are all there; and        *)
(* without delete-originals the source is as it was.                       *)
(***************************************************************************)
CopiedAndVerified(n) ==
  \E c \in DOMAIN hist : \E v \in DOMAIN hist :
    /\ c < v
    /\ hist[c].ev = "copy" /\ hist[c].f = n
    /\ hist[v].ev = "verify" /\ hist[v].f = n /\ hist[v].ok

C24_SourceFrame ==
  InRun =>
    /\ \A n \in DOMAIN src : n \in DOMAIN src0 /\ src[n] = src0[n]
    /\ \A n \in DOMAIN src0 \ DOMAIN src :
         /\ args.delete_originals /\ Scanned
         /\ Matching(n)
         /\ CopiedAndVerified(n)
    /\ ~args.delete_originals => src = src0

\* a finished run with delete-originals removed a file and left an
\* unmatched file and a sub-directory whose name matches
C24_Witness ==
  /\ pc = "done" /\ exit = 0 /\ args.delete_originals
  /\ DOMAIN src0 \ DOMAIN src # {}
  /\ \E n \in DOMAIN src : src[n].kind = "dir" /\ MatchesIn(n, args.pattern)
  /\ \E n \in DOMAIN src : src[n].kind # "dir" /\ ~MatchesIn(n, args.pattern)

(***************************************************************************)
(* C25  With zip-only, a group's folder is removed only right after that   *)
(* group's archive was created successfully; when the archive step fails   *)
(* the folder, with its files, is still there; and after a successful run  *)
(* every group of the scan has its archive and no folder.                  *)
(***************************************************************************)
C25_RemoveStep ==
  (Len(hist') = Len(hist) + 1 /\ Last(hist').ev = "rmtree")
    => /\ args.zip_only
       /\ hist # <<>> /\ Last(hist).ev = "zip" /\ Last(hist).ok
       /\ Last(hist).g = Last(hist').g
       /\ ZipName(Last(hist').g) \in DOMAIN dst

C25_KeptOnFailure ==
  \A i \in ZipFailures :
    /\ FolderIsDir(outExists, dst, hist[i].g)
    /\ \A k \in DOMAIN hist :
         (hist[k].ev = "verify" /\ hist[k].ok /\ hist[k].g = hist[i].g)
           => Target(outExists, dst, hist[i].g, hist[k].f).exists

C25_AfterSuccess ==
  (pc = "done" /\ exit = 0 /\ Scanned /\ args.zip_only) =>
    \A i \in DOMAIN groups :
      /\ outExists
      /\ ZipName(groups[i].name) \in DOMAIN dst
      /\ dst[ZipName(groups[i].name)].kind = "zip"
      /\ groups[i].name \notin DOMAIN dst
      /\ ~IsRoot(groups[i].name)

C25_ZipOnly ==
  [][C25_RemoveStep]_vars /\ [](InRun => (C25_KeptOnFailure /\ C25_AfterSuccess))

(***************************************************************************)
(* C26  With zip-only, removing a group's folder removes only that folder  *)
(* and the files in it: the step that removes it leaves the destination    *)
(* directory in place and leaves every other entry of it, the log file,    *)
(* the other groups' folders and all archives, as it was.                  *)
(***************************************************************************)
C26_RemoveStep ==
  (Len(hist') = Len(hist) + 1 /\ Last(hist').ev = "rmtree")
    => /\ outExists' = outExists
       /\ \A n \in DOMAIN dst \ { Last(hist').g } :
            n \in DOMAIN dst' /\ dst'[n] = dst[n]
       /\ Last(hist').g \in DOMAIN dst /\ dst[Last(hist').g].kind = "dir"
       /\ src' = src

C26_RemoveOnlyOwnFolder == [][C26_RemoveStep]_vars

(***************************************************************************)
(* C27  No data loss across runs.  At the end of a successful run, the     *)
(* content of every original deleted by this run, and of every original    *)
(* deleted by the run before it, is in the destination: as the file of     *)
(* that name in a group folder or as the entry of that name in an archive. *)
(***************************************************************************)
Retrievable(n, data) ==
  \E g \in GroupNames :
    \/ /\ Target(outExists, dst, g, n).exists
       /\ Target(outExists, dst, g, n).data = data
    \/ /\ outExists /\ ZipName(g) \in DOMAIN dst
       /\ dst[ZipName(g)].kind = "zip"
       /\ n \in DOMAIN dst[ZipName(g)].files
       /\ dst[ZipName(g)].files[n] = data

\* the run before this one succeeded with delete-originals and without any
\* failure, so it deleted every original it matched
PrevDeletedAll ==
  /\ prev.ran /\ prev.exit = 0 /\ faults = 0
  /\ prev.args.delete_originals
  /\ ~InvalidInput(prev.args) /\ prev.args.source = "dir"

PrevDeleted ==
  { n \in DOMAIN prev.src0 :
      prev.src0[n].kind # "dir" /\ MatchesIn(n, prev.args.pattern) }

C27_NoDataLoss ==
  (pc = "done" /\ exit = 0 /\ InRun) =>
    /\ \A n \in removed : Retrievable(n, src0[n].data)
    /\ PrevDeletedAll => \A n \in PrevDeleted : Retrievable(n, prev.src0[n].data)

(***************************************************************************)
(* C28  A file skipped as a duplicate is never deleted from the source.    *)
(* In every state of a run, delete-originals or not, a file the run has    *)
(* skipped is in the source with the content it had, has had no delete     *)
(* step, and the deletion count is the number of delete steps, all of      *)
(* them for files that were not skipped.                                   *)
(***************************************************************************)
Deletes == { i \in DOMAIN hist : hist[i].ev = "delete" }

C28_SkippedNotDeleted ==
  InRun =>
    /\ \A i \in Skips :
         /\ hist[i].f \in DOMAIN src /\ src[hist[i].f] = src0[hist[i].f]
         /\ hist[i].f \notin removed
         /\ \A k \in Deletes : hist[k].f # hist[i].f
    /\ files_deleted = Cardinality(Deletes)
    /\ files_skipped = Cardinality(Skips)

\* a finished run with delete-originals that skipped one file and deleted
\* another
C28_Witness ==
  /\ pc = "done" /\ exit = 0 /\ args.delete_originals
  /\ Skips # {} /\ removed # {}
  /\ files_deleted = 1 /\ files_skipped = 1

(***************************************************************************)
(* C29  Outcome accounting.  In every state of a non-preview run the       *)
(* copied count plus the skipped count is the number of files that have    *)
(* got their outcome so far (skipped as duplicates, or copied and          *)
(* verified), the deleted count is at most the copied count, and when the  *)
(* run has returned 0 the sum is the number of matched files of the scan,  *)
(* each with exactly one outcome.                                          *)
(***************************************************************************)
Verified == { i \in DOMAIN hist : hist[i].ev = "verify" /\ hist[i].ok }

Outcomes(f) == { i \in Skips \cup Verified : hist[i].f = f }

C29_Accounting ==
  (InRun /\ ~args.dry_run) =>
    /\ files_copied = Cardinality(Verified)
    /\ files_skipped = Cardinality(Skips)
    /\ files_copied + files_skipped = Cardinality(Skips \cup Verified)
    /\ files_deleted <= files_copied
    /\ \A f \in Names : Cardinality(Outcomes(f)) <= 1
    /\ (pc = "done" /\ exit = 0 /\ Scanned) =>
         /\ files_copied + files_skipped = Cardinality(MatchedFiles)
         /\ \A f \in MatchedFiles : Cardinality(Outcomes(f)) = 1

\* a finished run over three matched files: one skipped, two copied
C29_Witness ==
  /\ pc = "done" /\ exit = 0 /\ ~args.dry_run /\ Scanned
  /\ Cardinality(MatchedFiles) = 3
  /\ files_skipped = 1 /\ files_copied = 2

(***************************************************************************)
(* C30  The preview plan matches the real run.  The files a successful     *)
(* run decides to skip are the matched files whose target exists in the    *)
(* destination the run started from, and the files it decides to copy (a   *)
(* preview) or copies (a real run without delete-originals and zip-only)   *)
(* are the other matched files; the groups are those of the files of the   *)
(* source that match; and the real run ends with the folder and the        *)
(* archive of each group.  A preview and a real run from the same source   *)
(* and destination therefore agree.                                        *)
(***************************************************************************)
PlanSkip == { m \in Matched : Target(outExists0, dst0, m[1], m[2]).exists }

DecidedSkip == { <<hist[i].g, hist[i].f>> : i \in Skips }

DecidedCopy ==
  { <<hist[i].g, hist[i].f>> :
      i \in { k \in DOMAIN hist : hist[k].ev = "resolve" /\ hist[k].ok } }

Copied == { <<hist[i].g, hist[i].f>> : i \in Verified }

PlanGroups ==
  { extract_group(n, args.pattern).val : n \in { x \in Names : Matching(x) } }

PlanDone ==
  /\ pc = "done" /\ exit = 0 /\ Scanned
  /\ ~args.delete_originals /\ ~args.zip_only

C30_PreviewMatchesRun ==
  PlanDone =>
    /\ DecidedSkip = PlanSkip
    /\ DecidedCopy = Matched \ PlanSkip
    /\ ~args.dry_run => Copied = DecidedCopy
    /\ { groups[i].name : i \in DOMAIN groups } = PlanGroups
    /\ ~args.dry_run =>
         \A g \in PlanGroups :
           /\ FolderIsDir(outExists, dst, g)
           /\ ZipName(g) \in DOMAIN dst /\ dst[ZipName(g)].kind = "zip"
    /\ ~args.dry_run =>
         DOMAIN dst \subseteq
           DOMAIN dst0 \cup PlanGroups \cup { ZipName(g) : g \in PlanGroups }
             \cup { LogName } \cup { m[2] : m \in { x \in Matched : IsRoot(x[1]) } }

\* a finished preview that decided to skip one file and to copy another
C30_Witness ==
  /\ PlanDone /\ args.dry_run
  /\ DecidedSkip # {} /\ DecidedCopy # {}
====
